---- MODULE Spec2Model ----
(***************************************************************************)
(* Model of core/forms.py: the user administration forms                   *)
(* UsuarioCrearForm, UsuarioEditarForm and UsuarioToggleActivoForm over    *)
(* the framework's User and Group tables.                                  *)
(*                                                                         *)
(* A string is a sequence of one-character strings, so that strip(),       *)
(* case folding and length checks are computed, not assumed.  In an email  *)
(* each letter stands for a well-formed label ("a@b" for "ana@muni.cl").   *)
(* Accents of the source's literals are dropped ("Direccion").             *)
(*                                                                         *)
(* The User fields username, first_name, last_name and is_staff are        *)
(* copied by the ModelForm exactly like is_active and take part in no      *)
(* validation of this file; the model keeps email, is_active, password     *)
(* and the group membership.                                               *)
(***************************************************************************)
EXTENDS Integers, Sequences, FiniteSets, TLC

VARIABLES
    users,        \* the User table: row pk is users[pk]
    group_table,  \* the Group table: the set of group names that exist
    form,         \* the bound form the view currently holds
    ret,          \* what the last call returned
    written       \* pks of the rows written by a form's save(commit=True)

vars == <<users, group_table, form, ret, written>>

-----------------------------------------------------------------------------
(* Bounds and program constants *)

MaxUsers == 2

MinLength == 8

ROL_CHOICES ==
    {"Administrador", "Direccion", "Departamento", "Jefe de Cuadrilla", "Territorial"}

MSG_OBLIGATORIO == "El correo es obligatorio."
MSG_DUPLICADO ==
    "Ya existe un usuario con este correo (no distingue mayusculas/minusculas)."
MSG_NO_COINCIDEN == "Las contrasenas no coinciden."
MSG_AMBAS == "Debes completar ambas contrasenas si vas a cambiarla."
\* the framework's own field errors
MSG_REQUIRED == "This field is required."
MSG_MIN_LENGTH == "Ensure this value has at least 8 characters."
MSG_INVALID_EMAIL == "Enter a valid email address."
MSG_INVALID_CHOICE == "Select a valid choice."

-----------------------------------------------------------------------------
(* Python values *)

\* None, and a value that is present
NONE == <<>>
Some(x) == <<x>>

\* Python truthiness of an optional string: None and "" are falsy
Truthy(o) == o # NONE /\ o[1] # <<>>

RECURSIVE lstrip(_)
lstrip(s) == IF s # <<>> /\ Head(s) = " " THEN lstrip(Tail(s)) ELSE s

RECURSIVE rstrip(_)
rstrip(s) ==
    IF s # <<>> /\ s[Len(s)] = " " THEN rstrip(SubSeq(s, 1, Len(s) - 1)) ELSE s

\* str.strip()
strip(s) == rstrip(lstrip(s))

lower_char(c) ==
    CASE c = "A" -> "a"
      [] c = "B" -> "b"
      [] c = "C" -> "c"
      [] OTHER -> c

\* str.lower()
lower(s) == [i \in 1..Len(s) |-> lower_char(s[i])]

\* the ORM's __iexact lookup: equality without regard to letter case
iexact(stored, value) == lower(stored) = lower(value)

AtPositions(s) == {i \in 1..Len(s) : s[i] = "@"}

Max(S) == CHOOSE x \in S : \A y \in S : y <= x

\* UserManager.normalize_email, run by User.clean() when the ModelForm
\* validates its instance: the domain part is lower-cased
normalize_email(email) ==
    LET t == strip(email)
        ps == AtPositions(t)
    IN  IF ps = {} THEN email
        ELSE SubSeq(t, 1, Max(ps)) \o lower(SubSeq(t, Max(ps) + 1, Len(t)))

\* EmailValidator, abstracted: one "@", something on both sides, no blank
email_format_ok(s) ==
    /\ Cardinality(AtPositions(s)) = 1
    /\ s[1] # "@"
    /\ s[Len(s)] # "@"
    /\ \A i \in 1..Len(s) : s[i] # " "

\* user.set_password / check_password: the stored value is a hash, not the text
make_password(raw) == [usable |-> TRUE, raw |-> raw]
UNUSABLE_PASSWORD == [usable |-> FALSE, raw |-> <<>>]
check_password(raw, hash) == hash.usable /\ hash.raw = raw

-----------------------------------------------------------------------------
(* Field cleaning (forms.Field.clean), before clean_<name> and clean() *)

Ok(v) == [ok |-> TRUE, value |-> Some(v), errors |-> {}]
Err(msg) == [ok |-> FALSE, value |-> NONE, errors |-> {msg}]

\* CharField.to_python with the default strip=True; a missing key is ""
to_python(raw) == IF raw = NONE THEN <<>> ELSE strip(raw[1])

\* forms.CharField(required=..., min_length=...)
char_field(raw, required, min_length) ==
    LET v == to_python(raw)
    IN  IF v = <<>>
        THEN IF required THEN Err(MSG_REQUIRED) ELSE Ok(v)
        ELSE IF Len(v) < min_length THEN Err(MSG_MIN_LENGTH) ELSE Ok(v)

\* the ModelForm's EmailField for User.email (blank=True, so not required)
email_field(raw) ==
    LET v == to_python(raw)
    IN  IF v = <<>> THEN Ok(v)
        ELSE IF ~email_format_ok(v) THEN Err(MSG_INVALID_EMAIL) ELSE Ok(v)

\* forms.ChoiceField(choices=ROL_CHOICES, required=True)
rol_field(raw) ==
    IF raw = NONE \/ raw[1] = "" THEN Err(MSG_REQUIRED)
    ELSE IF raw[1] \notin ROL_CHOICES THEN Err(MSG_INVALID_CHOICE)
    ELSE Ok(raw[1])

\* forms.BooleanField(required=True)
confirmar_field(raw) == IF raw THEN Ok(TRUE) ELSE Err(MSG_REQUIRED)

-----------------------------------------------------------------------------
(* validar_email_unico_ci and the clean_email methods.  A clean_<name>      *)
(* method either returns the cleaned value or raises one ValidationError.  *)

Return(v) == [ok |-> TRUE, value |-> Some(v), errors |-> {}]
Raise(msg) == [ok |-> FALSE, value |-> NONE, errors |-> {msg}]

Pks(table) == 1..Len(table)

\* User.objects.filter(email__iexact=value).exists(): TRUE when it raises
validar_email_unico_ci_exact(table, value) ==
    \E pk \in Pks(table) : table[pk].email = value

validar_email_unico_ci(table, value) ==
    \E pk \in Pks(table) : iexact(table[pk].email, value)

UsuarioCrearForm_clean_email_unchecked(table, value) ==
    LET email == strip(value)
    IN  IF validar_email_unico_ci(table, email) THEN Raise(MSG_DUPLICADO)
        ELSE Return(email)

UsuarioCrearForm_clean_email(table, value) ==
    LET email == strip(value)
    IN  IF email = <<>> THEN Raise(MSG_OBLIGATORIO)
        ELSE IF validar_email_unico_ci(table, email) THEN Raise(MSG_DUPLICADO)
        ELSE Return(email)

UsuarioEditarForm_clean_email_no_unique(table, instance_pk, value) ==
    LET email == strip(value)
    IN  IF email = <<>> THEN Raise(MSG_OBLIGATORIO) ELSE Return(email)

UsuarioEditarForm_clean_email_no_exclude(table, instance_pk, value) ==
    LET email == strip(value)
    IN  IF email = <<>> THEN Raise(MSG_OBLIGATORIO)
        ELSE IF \E pk \in Pks(table) : iexact(table[pk].email, email)
        THEN Raise(MSG_DUPLICADO)
        ELSE Return(email)

UsuarioEditarForm_clean_email(table, instance_pk, value) ==
    LET email == strip(value)
    IN  IF email = <<>> THEN Raise(MSG_OBLIGATORIO)
        ELSE IF \E pk \in Pks(table) \ {instance_pk} : iexact(table[pk].email, email)
        THEN Raise(MSG_DUPLICADO)
        ELSE Return(email)

-----------------------------------------------------------------------------
(* clean(): the messages it attaches to password2.  cleaned.get(name) is   *)
(* None for a field whose own cleaning failed.                             *)

UsuarioCrearForm_clean_no_check(cleaned) == {}

UsuarioCrearForm_clean(cleaned) ==
    LET p1 == cleaned.password1
        p2 == cleaned.password2
    IN  IF Truthy(p1) /\ Truthy(p2) /\ p1[1] # p2[1]
        THEN {MSG_NO_COINCIDEN}
        ELSE {}

UsuarioEditarForm_clean_no_incomplete(cleaned) ==
    LET p1 == cleaned.password1
        p2 == cleaned.password2
    IN  IF Truthy(p1) /\ Truthy(p2) /\ p1[1] # p2[1]
        THEN {MSG_NO_COINCIDEN}
        ELSE {}

UsuarioEditarForm_clean(cleaned) ==
    LET p1 == cleaned.password1
        p2 == cleaned.password2
    IN  IF Truthy(p1) \/ Truthy(p2)
        THEN IF ~Truthy(p1) \/ ~Truthy(p2) THEN {MSG_AMBAS}
             ELSE IF p1[1] # p2[1] THEN {MSG_NO_COINCIDEN}
             ELSE {}
        ELSE {}

-----------------------------------------------------------------------------
(* A bound form after full_clean(): the submitted data, cleaned_data and   *)
(* the errors as (field, message) pairs.  add_error(field, ...) also drops *)
(* the field from cleaned_data.                                            *)

FieldErrors(name, r) == {<<name, m>> : m \in r.errors}

NoData ==
    [email |-> NONE, password1 |-> NONE, password2 |-> NONE, rol |-> NONE,
     is_active |-> FALSE, confirmar |-> FALSE]

NoCleaned ==
    [email |-> NONE, password1 |-> NONE, password2 |-> NONE, rol |-> NONE,
     is_active |-> NONE, confirmar |-> NONE]

NoForm ==
    [kind |-> "none", pk |-> 0, data |-> NoData, cleaned |-> NoCleaned, errors |-> {}]

\* cleaned_data once every field and clean_<name> has run
CleanedFields(data, e, p1, p2, r) ==
    [email |-> e.value, password1 |-> p1.value, password2 |-> p2.value,
     rol |-> r.value, is_active |-> Some(data.is_active), confirmar |-> NONE]

\* Form.full_clean(): the fields' errors, then those clean() adds to password2
FullClean(kind, pk, data, e, p1, p2, r, clean_errors) ==
    LET cleaned0 == CleanedFields(data, e, p1, p2, r)
    IN  [kind |-> kind,
         pk |-> pk,
         data |-> data,
         cleaned |-> IF clean_errors = {} THEN cleaned0
                     ELSE [cleaned0 EXCEPT !.password2 = NONE],
         errors |-> FieldErrors("email", e) \cup FieldErrors("password1", p1)
                    \cup FieldErrors("password2", p2) \cup FieldErrors("rol", r)
                    \cup {<<"password2", m>> : m \in clean_errors}]

\* UsuarioCrearForm(data).is_valid()
UsuarioCrearForm(table, data) ==
    LET e0 == email_field(data.email)
        e == IF e0.ok THEN UsuarioCrearForm_clean_email(table, e0.value[1]) ELSE e0
        p1 == char_field(data.password1, TRUE, MinLength)
        p2 == char_field(data.password2, TRUE, 0)
        r == rol_field(data.rol)
    IN  FullClean("crear", 0, data, e, p1, p2, r,
                  UsuarioCrearForm_clean(CleanedFields(data, e, p1, p2, r)))

\* UsuarioEditarForm(data, instance=users[pk]).is_valid()
UsuarioEditarForm(table, pk, data) ==
    LET e0 == email_field(data.email)
        e == IF e0.ok THEN UsuarioEditarForm_clean_email(table, pk, e0.value[1]) ELSE e0
        p1 == char_field(data.password1, FALSE, MinLength)
        p2 == char_field(data.password2, FALSE, 0)
        r == rol_field(data.rol)
    IN  FullClean("editar", pk, data, e, p1, p2, r,
                  UsuarioEditarForm_clean(CleanedFields(data, e, p1, p2, r)))

\* UsuarioToggleActivoForm(data).is_valid()
UsuarioToggleActivoForm(data) ==
    LET c == confirmar_field(data.confirmar)
    IN  [kind |-> "toggle",
         pk |-> 0,
         data |-> data,
         cleaned |-> [NoCleaned EXCEPT !.confirmar = c.value],
         errors |-> FieldErrors("confirmar", c)]

-----------------------------------------------------------------------------
(* save().  super().save(commit=False) returns the instance carrying the   *)
(* cleaned fields (the email as User.clean() normalised it) and raises     *)
(* ValueError when the form has errors.                                    *)

Row(user, gs) ==
    [email |-> user.email, password |-> user.password,
     is_active |-> user.is_active, groups |-> gs]

\* user.save(): INSERT of a new row, UPDATE of the row pk otherwise
save_row(table, pk, user) ==
    IF pk \in Pks(table)
    THEN [table EXCEPT ![pk] = Row(user, table[pk].groups)]
    ELSE Append(table, Row(user, {}))

\* user.groups.clear(); get_or_create(name=rol); user.groups.add(group)
groups_add_without_clear(table, pk, rol) ==
    [table EXCEPT ![pk].groups = @ \cup {rol}]

groups_clear_add(table, pk, rol) ==
    [table EXCEPT ![pk].groups = {rol}]

\* the instance UsuarioCrearForm.save returns: set_password is unconditional
UsuarioCrearForm_save_user(cleaned) ==
    [email |-> normalize_email(cleaned.email[1]),
     is_active |-> cleaned.is_active[1],
     password |-> make_password(cleaned.password1[1])]

\* the User table after UsuarioCrearForm.save(commit)
UsuarioCrearForm_save_table(table, pk, user, rol, commit) ==
    IF commit THEN groups_clear_add(save_row(table, pk, user), pk, rol) ELSE table

\* the instance UsuarioEditarForm.save returns: set_password only "if p1"
UsuarioEditarForm_save_user(instance, cleaned) ==
    [email |-> normalize_email(cleaned.email[1]),
     is_active |-> cleaned.is_active[1],
     password |-> IF Truthy(cleaned.password1)
                  THEN make_password(cleaned.password1[1])
                  ELSE instance.password]

\* the User table after UsuarioEditarForm.save(commit)
UsuarioEditarForm_save_table_groups_always(table, pk, user, rol, commit) ==
    IF commit THEN groups_clear_add(save_row(table, pk, user), pk, rol)
    ELSE groups_clear_add(table, pk, rol)

UsuarioEditarForm_save_table(table, pk, user, rol, commit) ==
    IF commit THEN groups_clear_add(save_row(table, pk, user), pk, rol) ELSE table

\* the Group table after Group.objects.get_or_create(name=rol) under "if commit"
get_or_create(gt, rol, commit) == IF commit THEN gt \cup {rol} ELSE gt

\* UsuarioToggleActivoForm.next_state_label
next_state_label_swapped(user) == IF user.is_active THEN "Activar" ELSE "Desactivar"

next_state_label(user) == IF user.is_active THEN "Desactivar" ELSE "Activar"

-----------------------------------------------------------------------------
(* What a call returned *)

NoUser == [email |-> <<>>, is_active |-> TRUE, password |-> UNUSABLE_PASSWORD]

NoRet ==
    [op |-> "none", pk |-> 0, commit |-> FALSE, raised |-> FALSE, valid |-> FALSE,
     user |-> NoUser, label |-> ""]

-----------------------------------------------------------------------------
(* Submissions *)

Rep(c, n) == [i \in 1..n |-> c]

EMAIL_ab == <<"a", "@", "b">>
EMAIL_AB == <<"A", "@", "B">>
EMAIL_cb == <<"c", "@", "b">>

PW_1 == Rep("x", MinLength)
PW_2 == Rep("y", MinLength)
PW_SHORT == Rep("x", MinLength - 1)

EmailInputs ==
    {NONE, Some(<<>>), Some(<<" ">>), Some(EMAIL_ab), Some(EMAIL_AB),
     Some(<<" ">> \o EMAIL_ab \o <<" ">>), Some(EMAIL_cb), Some(<<"a">>)}

PwInputs ==
    {Some(<<>>), Some(PW_SHORT), Some(PW_1), Some(PW_2), Some(PW_1 \o <<" ">>)}

RolInputs == {NONE, Some("Otro")} \cup {Some(r) : r \in ROL_CHOICES}

Data(E, P1, P2, R, A) ==
    [email : E, password1 : P1, password2 : P2, rol : R, is_active : A,
     confirmar : {FALSE}]

-----------------------------------------------------------------------------
(* Actions: one per call the view makes on a form *)

\* form = UsuarioCrearForm(request.POST); form.is_valid()
CrearIsValid(D) ==
    \E data \in D :
        /\ form' = UsuarioCrearForm(users, data)
        /\ ret' = [NoRet EXCEPT !.op = "is_valid", !.valid = (form'.errors = {})]
        /\ UNCHANGED <<users, group_table, written>>

\* form.save(commit) on a UsuarioCrearForm
CrearSave ==
    /\ form.kind = "crear"
    /\ \E commit \in BOOLEAN :
        IF form.errors # {}
        THEN /\ ret' = [NoRet EXCEPT !.op = "save", !.commit = commit, !.raised = TRUE]
             /\ UNCHANGED <<users, group_table, form, written>>
        ELSE LET user == UsuarioCrearForm_save_user(form.cleaned)
                 rol == form.cleaned.rol[1]
                 pk == IF form.pk = 0 THEN Len(users) + 1 ELSE form.pk
             IN  /\ commit => pk <= MaxUsers
                 /\ users' = UsuarioCrearForm_save_table(users, pk, user, rol, commit)
                 /\ group_table' = get_or_create(group_table, rol, commit)
                 /\ form' = IF commit THEN [form EXCEPT !.pk = pk] ELSE form
                 /\ written' = IF commit THEN written \cup {pk} ELSE written
                 /\ ret' = [NoRet EXCEPT !.op = "save", !.commit = commit,
                                         !.pk = form'.pk, !.user = user]

\* form = UsuarioEditarForm(request.POST, instance=user); form.is_valid()
EditarIsValid(D) ==
    \E pk \in Pks(users), data \in D :
        /\ form' = UsuarioEditarForm(users, pk, data)
        /\ ret' = [NoRet EXCEPT !.op = "is_valid", !.pk = pk,
                                !.valid = (form'.errors = {})]
        /\ UNCHANGED <<users, group_table, written>>

\* form.save(commit) on a UsuarioEditarForm
EditarSave ==
    /\ form.kind = "editar"
    /\ \E commit \in BOOLEAN :
        IF form.errors # {}
        THEN /\ ret' = [NoRet EXCEPT !.op = "save", !.commit = commit, !.pk = form.pk,
                                     !.raised = TRUE]
             /\ UNCHANGED <<users, group_table, form, written>>
        ELSE LET user == UsuarioEditarForm_save_user(users[form.pk], form.cleaned)
                 rol == form.cleaned.rol[1]
             IN  /\ users' = UsuarioEditarForm_save_table(users, form.pk, user, rol, commit)
                 /\ group_table' = get_or_create(group_table, rol, commit)
                 /\ written' = IF commit THEN written \cup {form.pk} ELSE written
                 /\ ret' = [NoRet EXCEPT !.op = "save", !.commit = commit,
                                         !.pk = form.pk, !.user = user]
                 /\ UNCHANGED form

\* form = UsuarioToggleActivoForm(request.POST); form.is_valid()
ToggleIsValid ==
    \E c \in BOOLEAN :
        /\ form' = UsuarioToggleActivoForm([NoData EXCEPT !.confirmar = c])
        /\ ret' = [NoRet EXCEPT !.op = "is_valid", !.valid = (form'.errors = {})]
        /\ UNCHANGED <<users, group_table, written>>

\* form.next_state_label(user), as the template calls it
NextStateLabel ==
    /\ form.kind = "toggle"
    /\ \E pk \in Pks(users) :
        /\ ret' = [NoRet EXCEPT !.op = "next_state_label", !.pk = pk,
                                !.label = next_state_label(users[pk])]
        /\ UNCHANGED <<users, group_table, form, written>>

-----------------------------------------------------------------------------
(* Initial tables: rows that exist before the forms are used.  The          *)
(* framework does not make User.email unique or mandatory.                 *)

LEGACY ==
    [email |-> <<>>, password |-> UNUSABLE_PASSWORD, is_active |-> TRUE,
     groups |-> {"Otro", "Territorial"}]

USER_A ==
    [email |-> EMAIL_ab, password |-> make_password(PW_2), is_active |-> FALSE,
     groups |-> {}]

USER_A2 ==
    [email |-> <<"A", "@", "b">>, password |-> make_password(PW_2), is_active |-> TRUE,
     groups |-> {"Otro"}]

USER_PADDED ==
    [email |-> <<" ">> \o EMAIL_cb, password |-> UNUSABLE_PASSWORD, is_active |-> TRUE,
     groups |-> {"Otro", "Territorial"}]

InitTables ==
    {<<>>, <<LEGACY>>, <<USER_A>>, <<USER_PADDED>>, <<USER_A, USER_A2>>,
     <<LEGACY, USER_A>>}

\* no two rows with emails equal ignoring case, and no empty email
UniqueNonEmpty(table) ==
    /\ \A p \in Pks(table) : table[p].email # <<>>
    /\ \A p, q \in Pks(table) : p # q => ~iexact(table[p].email, table[q].email)

InitFrom(tables) ==
    /\ users \in tables
    /\ group_table = UNION {users[p].groups : p \in Pks(users)}
    /\ form = NoForm
    /\ ret = NoRet
    /\ written = {}

Init == InitFrom(InitTables)

InitUnique == InitFrom({t \in InitTables : UniqueNonEmpty(t)})

-----------------------------------------------------------------------------
(* Specifications.  Each varies the submitted fields its claims are about  *)
(* and holds the others at a valid value.                                  *)

\* emails vary
CrearData ==
    Data(EmailInputs, {Some(PW_1)}, {Some(PW_1)}, {Some("Administrador")}, {TRUE})
EditarData ==
    Data(EmailInputs, {Some(<<>>)}, {Some(<<>>)}, {Some("Territorial")}, BOOLEAN)

CrearIsValidEmail == CrearIsValid(CrearData)
EditarIsValidEmail == EditarIsValid(EditarData)

Next ==
    \/ CrearIsValidEmail
    \/ CrearSave
    \/ EditarIsValidEmail
    \/ EditarSave
    \/ ToggleIsValid
    \/ NextStateLabel

Spec == Init /\ [][Next]_vars

SpecUnique == InitUnique /\ [][Next]_vars

\* passwords vary
CrearIsValidPw ==
    CrearIsValid(Data({Some(EMAIL_cb)}, PwInputs, PwInputs, {Some("Administrador")}, {TRUE}))
EditarIsValidPw ==
    EditarIsValid(Data({Some(EMAIL_ab)}, PwInputs, PwInputs, {Some("Administrador")}, {TRUE}))

NextPw ==
    \/ CrearIsValidPw
    \/ CrearSave
    \/ EditarIsValidPw
    \/ EditarSave

SpecPw == Init /\ [][NextPw]_vars

\* rol and is_active vary
CrearIsValidRol ==
    CrearIsValid(Data({Some(EMAIL_cb)}, {Some(PW_1)}, {Some(PW_1)},
                      {NONE, Some("Otro"), Some("Jefe de Cuadrilla")}, {TRUE}))
EditarIsValidRol ==
    EditarIsValid(Data({Some(EMAIL_ab)}, {Some(<<>>)}, {Some(<<>>)}, RolInputs, {TRUE}))

NextRol ==
    \/ CrearIsValidRol
    \/ CrearSave
    \/ EditarIsValidRol
    \/ EditarSave

SpecRol == Init /\ [][NextRol]_vars

-----------------------------------------------------------------------------
(* The claims.  What was submitted is read from form.data, independently   *)
(* of the cleaning the forms do.                                           *)

\* the submitted text of a field, surrounding whitespace removed
Submitted(raw) == IF raw = NONE THEN <<>> ELSE strip(raw[1])

\* a field that is missing, empty or only whitespace
Blank(raw) == Submitted(raw) = <<>>

\* a field the user filled in
Supplied(raw) == raw # NONE /\ raw[1] # <<>>

SameIgnoringCase(x, y) ==
    /\ Len(x) = Len(y)
    /\ \A i \in 1..Len(x) : lower_char(x[i]) = lower_char(y[i])

EmailErrors(f) == {e \in f.errors : e[1] = "email"}

\* the messages clean() can attach to password2
CleanErrors(f) ==
    f.errors \cap {<<"password2", MSG_NO_COINCIDEN>>, <<"password2", MSG_AMBAS>>}

IsUserForm(f) == f.kind \in {"crear", "editar"}

\* C1: UsuarioCrearForm: a submitted email that some stored user holds, compared
\* without regard to case after stripping, makes the form invalid with an error
\* on email, and save() then creates no user; a non-empty email that no stored
\* user holds is accepted by clean_email.
C1_CrearEmailUnique ==
    [][/\ (ret'.op = "is_valid" /\ form'.kind = "crear") =>
            LET v == Submitted(form'.data.email)
            IN  IF \E p \in Pks(users) : SameIgnoringCase(users[p].email, v)
                THEN EmailErrors(form') # {}
                ELSE v # <<>> =>
                        /\ EmailErrors(form') \subseteq {<<"email", MSG_INVALID_EMAIL>>}
                        /\ email_format_ok(v) => form'.cleaned.email = Some(v)
       /\ (form.kind = "crear" /\ EmailErrors(form) # {}) =>
            UNCHANGED <<users, group_table>>]_vars

\* C1 witness: a creation rejected for an email that differs from the stored
\* one only by case, and the save() that followed created nothing
C1_Witness ==
    /\ form.kind = "crear"
    /\ <<"email", MSG_DUPLICADO>> \in form.errors
    /\ \A p \in Pks(users) : users[p].email # Submitted(form.data.email)
    /\ ret.op = "save"
    /\ ret.raised

\* C2 as stated: UsuarioEditarForm rejects the submitted email with an email
\* error exactly when a stored user other than the edited one holds it
\* (ignoring case).
C2_Original ==
    [][(ret'.op = "is_valid" /\ form'.kind = "editar") =>
            LET v == Submitted(form'.data.email)
            IN  EmailErrors(form') # {} <=>
                    \E p \in Pks(users) \ {form'.pk} :
                        SameIgnoringCase(users[p].email, v)]_vars

\* C2 amended: for a submitted email that is non-empty after stripping and
\* well-formed, UsuarioEditarForm rejects it with an email error exactly when
\* a stored user other than the edited one holds it (ignoring case); and a
\* save() of a form whose email was rejected changes no stored user.
C2_EditarEmailUnique ==
    [][/\ (ret'.op = "is_valid" /\ form'.kind = "editar") =>
            LET v == Submitted(form'.data.email)
            IN  (v # <<>> /\ email_format_ok(v)) =>
                    /\ EmailErrors(form') # {} <=>
                            \E p \in Pks(users) \ {form'.pk} :
                                SameIgnoringCase(users[p].email, v)
                    /\ EmailErrors(form') = {} => form'.cleaned.email = Some(v)
       /\ (form.kind = "editar" /\ EmailErrors(form) # {}) =>
            UNCHANGED <<users, group_table>>]_vars

\* C2 witness: the edited user's own email, in another letter case, accepted
C2_Witness ==
    /\ ret.op = "is_valid"
    /\ form.kind = "editar"
    /\ form.errors = {}
    /\ SameIgnoringCase(users[form.pk].email, Submitted(form.data.email))
    /\ users[form.pk].email # Submitted(form.data.email)

\* C3: in both forms a missing, empty or whitespace-only email gives the error
\* "El correo es obligatorio." on email, and no user is created or modified.
C3_EmailObligatorio ==
    [][(IsUserForm(form) /\ Blank(form.data.email)) =>
            /\ <<"email", MSG_OBLIGATORIO>> \in form.errors
            /\ UNCHANGED <<users, group_table>>]_vars

\* C3 witness: an edit submitted with a whitespace-only email, and its save()
C3_Witness ==
    /\ form.kind = "editar"
    /\ form.data.email = Some(<<" ">>)
    /\ <<"email", MSG_OBLIGATORIO>> \in form.errors
    /\ ret.op = "save"
    /\ ret.raised

\* C4 as stated: in both forms, password1 and password2 both supplied and
\* different give "Las contrasenas no coinciden." on password2; both supplied
\* and equal, clean() adds no password error.
C4_Original ==
    IsUserForm(form) =>
        LET p1 == form.data.password1
            p2 == form.data.password2
        IN  (Supplied(p1) /\ Supplied(p2)) =>
                IF p1[1] # p2[1]
                THEN <<"password2", MSG_NO_COINCIDEN>> \in form.errors
                ELSE CleanErrors(form) = {}

\* C4 amended: in both forms, when password1 and password2, surrounding
\* whitespace removed, are both non-empty and password1 has at least 8
\* characters, then if they differ the form has "Las contrasenas no coinciden."
\* on password2, and if they are equal clean() adds no password error.
C4_PasswordsMatch ==
    IsUserForm(form) =>
        LET a == Submitted(form.data.password1)
            b == Submitted(form.data.password2)
        IN  (Len(a) >= MinLength /\ b # <<>>) =>
                IF a # b
                THEN <<"password2", MSG_NO_COINCIDEN>> \in form.errors
                ELSE CleanErrors(form) = {}

\* C4 witness: a creation with two different valid passwords, rejected
C4_Witness ==
    /\ form.kind = "crear"
    /\ form.data.password1 = Some(PW_1)
    /\ form.data.password2 = Some(PW_2)
    /\ form.errors = {<<"password2", MSG_NO_COINCIDEN>>}

\* C5 as stated: UsuarioEditarForm with exactly one of password1, password2
\* supplied has "Debes completar ambas contrasenas si vas a cambiarla." on
\* password2; with both blank clean() adds no password error.
C5_Original ==
    form.kind = "editar" =>
        LET p1 == form.data.password1
            p2 == form.data.password2
        IN  /\ Supplied(p1) # Supplied(p2) => <<"password2", MSG_AMBAS>> \in form.errors
            /\ (~Supplied(p1) /\ ~Supplied(p2)) => CleanErrors(form) = {}

\* C5 amended: UsuarioEditarForm with exactly one of password1, password2
\* non-empty once surrounding whitespace is removed, password1 having at least
\* 8 characters when it is the one, has "Debes completar ambas contrasenas si
\* vas a cambiarla." on password2; with both blank clean() adds no password error.
C5_BothOrNone ==
    form.kind = "editar" =>
        LET a == Submitted(form.data.password1)
            b == Submitted(form.data.password2)
        IN  /\ ((Len(a) >= MinLength /\ b = <<>>) \/ (a = <<>> /\ b # <<>>)) =>
                    <<"password2", MSG_AMBAS>> \in form.errors
            /\ (a = <<>> /\ b = <<>>) => CleanErrors(form) = {}

\* C5 witness: an edit with password1 filled in and password2 left blank
C5_Witness ==
    /\ form.kind = "editar"
    /\ form.data.password1 = Some(PW_1)
    /\ form.data.password2 = Some(<<>>)
    /\ form.errors = {<<"password2", MSG_AMBAS>>}

\* C6: after a successful save(commit=True) with role r the saved user belongs
\* to exactly the group r, whatever it belonged to before; so every user saved
\* through the forms is in exactly one group, one of ROL_CHOICES.
C6_RolReplacesGroups ==
    /\ (ret.op = "save" /\ ret.commit /\ ~ret.raised) =>
            users[ret.pk].groups = {form.data.rol[1]}
    /\ \A p \in written :
            /\ Cardinality(users[p].groups) = 1
            /\ users[p].groups \subseteq ROL_CHOICES
    /\ UNION {users[p].groups : p \in Pks(users)} \subseteq group_table

\* C6 witness: a row that held two groups, one of them no role, saved by an
\* edit with role "Direccion"
C6_Witness ==
    /\ ret.op = "save"
    /\ ret.commit
    /\ form.kind = "editar"
    /\ users[ret.pk].password = UNUSABLE_PASSWORD
    /\ users[ret.pk].groups = {"Direccion"}
    /\ "Otro" \in group_table

\* C7: UsuarioEditarForm.save leaves the password hash alone when password1 is
\* blank and sets the password to the submitted password1 otherwise;
\* UsuarioCrearForm.save always sets the password to the submitted password1.
C7_PasswordSet ==
    [][(ret'.op = "save" /\ ~ret'.raised) =>
            LET p1 == form.data.password1
            IN  /\ IF form.kind = "crear" \/ Supplied(p1)
                   THEN check_password(p1[1], ret'.user.password)
                   ELSE ret'.user.password = users[form.pk].password
                /\ ret'.commit => users'[ret'.pk].password = ret'.user.password]_vars

\* C8: next_state_label is "Desactivar" for an active user and "Activar"
\* otherwise, and neither it nor validating UsuarioToggleActivoForm changes a
\* stored user or group.
C8_ToggleReadsOnly ==
    [][/\ ret'.op = "next_state_label" =>
            /\ ret'.label = IF users[ret'.pk].is_active THEN "Desactivar" ELSE "Activar"
            /\ UNCHANGED <<users, group_table>>
       /\ (ret'.op = "is_valid" /\ form'.kind = "toggle") =>
            UNCHANGED <<users, group_table>>]_vars

\* C8 witness: the label asked for a blocked user that an edit deactivated
C8_Witness ==
    /\ ret.op = "next_state_label"
    /\ ret.label = "Activar"
    /\ ret.pk \in written
    /\ form.kind = "toggle"
    /\ form.errors = {}

\* C9: from a table with no empty email and no two emails equal ignoring case,
\* after any sequence of form saves no two stored users have emails equal
\* ignoring case, and every user the forms wrote has a non-empty email without
\* surrounding whitespace.
C9_EmailsStayUnique ==
    /\ \A p, q \in Pks(users) :
            p # q => ~SameIgnoringCase(users[p].email, users[q].email)
    /\ \A p \in written :
            /\ users[p].email # <<>>
            /\ Head(users[p].email) # " "
            /\ users[p].email[Len(users[p].email)] # " "

\* C9 witness: two users written by the forms, one with an upper-case name
C9_Witness ==
    /\ Len(users) = 2
    /\ written = {1, 2}
    /\ \E p \in written : users[p].email = <<"A", "@", "b">>

\* C10: save(commit=False) of either form changes no stored user, no group
\* and no membership.
C10_NoCommitNoWrite ==
    [][(ret'.op = "save" /\ ~ret'.commit) => UNCHANGED <<users, group_table>>]_vars

\* C10 witness: an edit saved with commit=False whose role is not the user's
C10_Witness ==
    /\ ret.op = "save"
    /\ ~ret.commit
    /\ ~ret.raised
    /\ form.kind = "editar"
    /\ users[form.pk].groups # {form.data.rol[1]}
    /\ form.data.rol[1] \notin group_table

====
